---- MODULE Spec2Model ----
(***************************************************************************)
(* simplevcf: reading a VCF through pysam and flattening its records into *)
(* a pandas or polars table.  The state machine follows one call of one    *)
(* of the four public functions from the opening of the file to its       *)
(* return or to the exception that leaves it.                              *)
(***************************************************************************)
EXTENDS Integers, Sequences, FiniteSets, TLC

VARIABLES
    op,             \* the public function called
    file,           \* the VCF behind `path`: its header and its records
    args,           \* the arguments of the call, as passed
    info_fields,    \* local info_fields, rebound when passed as None
    sample_fields,  \* local sample_fields, rebound when passed as None
    samples,        \* local samples, rebound when passed as None
    handle,         \* pysam.VariantFile: "unopened", "open", "closed"
    pc,             \* position in the function
    record_iter,    \* the records the iterator has still to yield
    records,        \* the list of row dicts built by _read_vcf_as_records
    result          \* the value returned

vars == <<op, file, args, info_fields, sample_fields, samples, handle, pc,
          record_iter, records, result>>

\* The longest file read.
MaxRecs == 2

Range(s) == {s[i] : i \in DOMAIN s}

(***************************************************************************)
(* Python values.  Every value is a kind with its printed items, so that  *)
(* a tuple, the list made of it, None and the table's null are distinct.  *)
(***************************************************************************)
PyInt(s) == [kind |-> "int", val |-> <<s>>]
PyStr(s) == [kind |-> "str", val |-> <<s>>]
PyBool(s) == [kind |-> "bool", val |-> <<s>>]
PyTuple(s) == [kind |-> "tuple", val |-> s]
PyList(s) == [kind |-> "list", val |-> s]
PyNone == [kind |-> "None", val |-> <<>>]
\* the null of the returned table (NaN in pandas, null in polars)
Null == [kind |-> "null", val |-> <<>>]

\* list(v) of a tuple v
ToList(v) == PyList(v.val)

\* an optional argument: None, or a list of names
NoneArg == [isNone |-> TRUE, val |-> <<>>]
Some(s) == [isNone |-> FALSE, val |-> s]

(***************************************************************************)
(* Python dicts keep their keys in insertion order; assigning to a key    *)
(* that is present replaces its value and keeps its place.                *)
(***************************************************************************)
DictSet(d, k, v) ==
    [keys |-> IF k \in Range(d.keys) THEN d.keys ELSE Append(d.keys, k),
     at |-> [x \in (DOMAIN d.at) \cup {k} |-> IF x = k THEN v ELSE d.at[x]]]

Has(d, k) == k \in DOMAIN d.at

Fixed == <<"chrom", "pos", "id", "ref", "alts", "qual", "filters">>

(***************************************************************************)
(* The files read.  A header declares INFO fields, FORMAT fields and      *)
(* samples, in order; a record carries the fixed fields, its INFO items   *)
(* and one genotype per sample of the header.                              *)
(***************************************************************************)
Field(n, num, t) == [name |-> n, number |-> num, type |-> t, description |-> n]

Header1 ==
    [info |-> <<Field("AF", "A", "Float"), Field("DP", "1", "Integer")>>,
     formats |-> <<Field("GT", "1", "String"), Field("DP", "1", "Integer")>>,
     samples |-> <<"S1">>]

\* INFO IDs that spell a fixed column and a sample column
Header2 ==
    [info |-> <<Field("chrom", "1", "String"), Field("S1.DP", "1", "Integer")>>,
     formats |-> <<Field("GT", "1", "String"), Field("DP", "1", "Integer")>>,
     samples |-> <<"S2", "S1">>]

Item(k, v) == [key |-> k, value |-> v]
Genotype(n, ph, fs) == [name |-> n, phased |-> PyBool(ph), fields |-> fs]

\* DP=10 and GT:DP = 0/1:5
RecScenario ==
    [chrom |-> PyStr("chr1"), pos |-> PyInt("100"), id |-> PyNone, ref |-> PyStr("A"),
     alts |-> PyTuple(<<"T">>), qual |-> PyNone, filter |-> <<>>,
     info |-> <<Item("DP", PyInt("10"))>>,
     samples |-> <<Genotype("S1", "False",
                     <<Item("GT", PyTuple(<<"0", "1">>)), Item("DP", PyInt("5"))>>)>>]

\* a multi-allelic site with a per-alt INFO value and a phased genotype
RecMulti ==
    [chrom |-> PyStr("chr2"), pos |-> PyInt("7"), id |-> PyStr("rs1"), ref |-> PyStr("G"),
     alts |-> PyTuple(<<"A", "C">>), qual |-> PyInt("30"), filter |-> <<"PASS">>,
     info |-> <<Item("AF", PyTuple(<<"0.1", "0.2">>))>>,
     samples |-> <<Genotype("S1", "True", <<Item("GT", PyTuple(<<"1", "2">>))>>)>>]

\* a site without ALT allele: pysam gives record.alts = None
RecNoAlt ==
    [chrom |-> PyStr("chr1"), pos |-> PyInt("200"), id |-> PyNone, ref |-> PyStr("C"),
     alts |-> PyNone, qual |-> PyNone, filter |-> <<>>,
     info |-> <<Item("DP", PyInt("3"))>>,
     samples |-> <<Genotype("S1", "False", <<Item("DP", PyInt("2"))>>)>>]

RecChromInfo ==
    [chrom |-> PyStr("chr1"), pos |-> PyInt("5"), id |-> PyNone, ref |-> PyStr("A"),
     alts |-> PyTuple(<<"G">>), qual |-> PyNone, filter |-> <<>>,
     info |-> <<Item("chrom", PyStr("x"))>>,
     samples |-> <<Genotype("S2", "True", <<Item("GT", PyTuple(<<"1", "1">>))>>),
                   Genotype("S1", "False", <<Item("GT", PyTuple(<<"0", "1">>))>>)>>]

RecSampleInfo ==
    [chrom |-> PyStr("chr2"), pos |-> PyInt("9"), id |-> PyNone, ref |-> PyStr("T"),
     alts |-> PyTuple(<<"C">>), qual |-> PyNone, filter |-> <<>>,
     info |-> <<Item("S1.DP", PyInt("7"))>>,
     samples |-> <<Genotype("S2", "False", <<Item("DP", PyInt("4"))>>),
                   Genotype("S1", "False", <<Item("DP", PyInt("5"))>>)>>]

RECURSIVE SeqsUpTo(_, _)
SeqsUpTo(S, n) ==
    IF n = 0 THEN {<<>>}
    ELSE LET shorter == SeqsUpTo(S, n - 1)
         IN  shorter \cup {Append(s, x) : s \in shorter, x \in S}

\* pl.from_records(records) is called without infer_schema_length: polars
\* takes the names of the columns from the first 100 dicts
InferSchemaLength == 100

\* a file longer than that, whose last record is the first to carry DP
LongFile ==
    [header |-> Header1,
     recs |-> [i \in 1..(InferSchemaLength + 1) |->
                 IF i <= InferSchemaLength THEN RecMulti ELSE RecScenario]]

Files ==
    {[header |-> Header1, recs |-> r] :
        r \in SeqsUpTo({RecScenario, RecMulti, RecNoAlt}, MaxRecs)}
    \cup
    {LongFile}
    \cup
    {[header |-> Header2, recs |-> r] :
        r \in SeqsUpTo({RecChromInfo, RecSampleInfo}, MaxRecs)}

InfoFieldArgs ==
    {NoneArg, Some(<<>>), Some(<<"DP">>), Some(<<"DP", "DP">>), Some(<<"chrom">>),
     Some(<<"S1.DP">>)}
SampleFieldArgs == {NoneArg, Some(<<>>), Some(<<"DP">>), Some(<<"GT", "DP">>)}
SampleArgs == {NoneArg, Some(<<>>), Some(<<"S1">>), Some(<<"S2", "S1">>)}
QueryArgs == {"None", "chr1"}

TableOps == {"read_vcf_as_pandas", "read_vcf_as_polars"}
SchemaOps == {"read_info_schema", "read_sample_schema"}

(***************************************************************************)
(* _read_info_schema, _read_sample_schema: one row per declared field, in *)
(* the order of the header.                                                *)
(***************************************************************************)
_read_info_schema(f) == f.header.info
_read_sample_schema(f) == f.header.formats

\* list(schema["name"])
Names(schema) == [i \in DOMAIN schema |-> schema[i].name]

(***************************************************************************)
(* _read_vcf_as_records, the body of its loop.                             *)
(***************************************************************************)
MainFields(record) ==
    [keys |-> Fixed,
     at |-> [k \in Range(Fixed) |->
               CASE k = "chrom" -> record.chrom
                 [] k = "pos" -> record.pos
                 [] k = "id" -> record.id
                 [] k = "ref" -> record.ref
                 [] k = "alts" -> ToList(record.alts)
                 [] k = "qual" -> record.qual
                 [] k = "filters" -> PyList(record.filter)]]

\* the filter of line 70 forgotten
InfoSelectedAlways(key, info_set, iu) == TRUE

\* line 70: the INFO item is kept
InfoSelected(key, info_set, iu) == key \in info_set \/ iu

\* line 78: the sample is kept (samples is a list)
SampleSelected(sample, sample_list, iu) == sample \in Range(sample_list) \/ iu

\* the filter of line 80 forgotten
FieldSelectedAlways(key, field_set, iu) == TRUE

\* line 80: the genotype field is kept
FieldSelected(key, field_set, iu) == key \in field_set \/ iu

RECURSIVE InfoLoop(_, _, _, _)
InfoLoop(dct, items, info_set, iu) ==
    IF items = <<>> THEN dct
    ELSE LET key == Head(items).key
             value == Head(items).value
             next == IF InfoSelected(key, info_set, iu)
                     THEN IF value.kind = "tuple"
                          THEN DictSet(dct, key, ToList(value))
                          ELSE DictSet(dct, key, value)
                     ELSE dct
         IN  InfoLoop(next, Tail(items), info_set, iu)

RECURSIVE GenotypeLoop(_, _, _, _, _)
GenotypeLoop(dct, genotype, items, field_set, iu) ==
    IF items = <<>> THEN dct
    ELSE LET key == Head(items).key
             value == Head(items).value
             sample == genotype.name
             next ==
                 IF FieldSelected(key, field_set, iu)
                 THEN IF key = "GT"
                      THEN DictSet(DictSet(dct, sample \o ".GT", ToList(value)),
                                   sample \o ".phased", genotype.phased)
                      ELSE IF value.kind = "tuple"
                      THEN DictSet(dct, sample \o "." \o key, ToList(value))
                      ELSE DictSet(dct, sample \o "." \o key, value)
                 ELSE dct
         IN  GenotypeLoop(next, genotype, Tail(items), field_set, iu)

RECURSIVE SamplesLoop(_, _, _, _, _)
SamplesLoop(dct, genotypes, sample_list, field_set, iu) ==
    IF genotypes = <<>> THEN dct
    ELSE LET genotype == Head(genotypes)
             next == IF SampleSelected(genotype.name, sample_list, iu)
                     THEN GenotypeLoop(dct, genotype, genotype.fields, field_set, iu)
                     ELSE dct
         IN  SamplesLoop(next, Tail(genotypes), sample_list, field_set, iu)

\* the dict appended for one record
RecordDict(record, info_set, field_set, sample_list, iu) ==
    SamplesLoop(InfoLoop(MainFields(record), record.info, info_set, iu),
                record.samples, sample_list, field_set, iu)

\* list(record.alts) raises TypeError when record.alts is None
RecordRaisesTypeError(record) == record.alts.kind = "None"

\* f.fetch(*bioframe.parse_region(query)) for a whole-contig query, or f itself
Fetch(f, q) ==
    IF q = "None" THEN f.recs
    ELSE SelectSeq(f.recs, LAMBDA r : r.chrom = PyStr(q))

(***************************************************************************)
(* The table built from the row dicts.                                     *)
(***************************************************************************)
\* the names of cols, then those of keys that are not among them
RECURSIVE AppendNew(_, _)
AppendNew(cols, keys) ==
    IF keys = <<>> THEN cols
    ELSE AppendNew(IF Head(keys) \in Range(cols) THEN cols ELSE Append(cols, Head(keys)),
                   Tail(keys))

\* the keys of the dicts lo..hi, each where it was first seen
RECURSIVE FirstSeen(_, _, _)
FirstSeen(recs, lo, hi) ==
    IF lo > hi THEN <<>>
    ELSE IF lo = hi THEN recs[lo].keys
    ELSE LET mid == (lo + hi) \div 2
         IN  AppendNew(FirstSeen(recs, lo, mid), FirstSeen(recs, mid + 1, hi))

\* the keys of the dicts, each where it was first seen
DfColumns(recs) == FirstSeen(recs, 1, Len(recs))

\* a default value in place of the null
MissingCellZero == PyInt("0")

\* the value of a cell no dict supplies (pd.NA, pl.lit(None))
MissingCell == Null

\* a frame of the given columns: one row per dict, a hole where the dict has
\* no such key, and the keys outside the columns left out
Frame(recs, columns) ==
    [columns |-> columns,
     rows |-> [i \in DOMAIN recs |->
                 [c \in Range(columns) |->
                    IF Has(recs[i], c) THEN recs[i].at[c] ELSE MissingCell]]]

\* pd.DataFrame.from_records(records): the keys of all the dicts
FromRecords(recs) == Frame(recs, DfColumns(recs))

\* the dicts polars reads the names of the columns from
SchemaRows(recs) ==
    SubSeq(recs, 1, IF Len(recs) < InferSchemaLength THEN Len(recs)
                    ELSE InferSchemaLength)

\* pl.from_records(records): the keys of the first dicts only; a key first
\* seen in a later dict is dropped with its values
PlFromRecords(recs) == Frame(recs, DfColumns(SchemaRows(recs)))

\* [f"{sample}.{field}" for field in ["phased", *sample_fields]]
RECURSIVE OneSampleColumns(_, _)
OneSampleColumns(sample, fields) ==
    IF fields = <<>> THEN <<>>
    ELSE <<sample \o "." \o Head(fields)>> \o OneSampleColumns(sample, Tail(fields))

RECURSIVE SampleColumns(_, _)
SampleColumns(sample_list, field_list) ==
    IF sample_list = <<>> THEN <<>>
    ELSE OneSampleColumns(Head(sample_list), <<"phased">> \o field_list)
         \o SampleColumns(Tail(sample_list), field_list)

\* lines 197-202: the columns named by the request
RequestColumns(info_list, field_list, sample_list) ==
    Fixed \o info_list \o SampleColumns(sample_list, field_list)

\* set(df.columns) - set(columns)
Unspecified(df, columns) == Range(df.columns) \ Range(columns)

\* list(a set): the order in which a set of strings is iterated depends on the
\* hashes of the strings, which change from one interpreter to the next
RECURSIVE ListOfSet(_)
ListOfSet(S) ==
    IF S = {} THEN {<<>>}
    ELSE UNION {{<<x>> \o t : t \in ListOfSet(S \ {x})} : x \in S}

\* line 203
FinalColumns(columns, unspecified_list) == columns \o unspecified_list

\* lines 205-209: the missing columns are added and the columns selected
Select(df, columns) ==
    [columns |-> columns,
     rows |-> [i \in DOMAIN df.rows |->
                 [c \in Range(columns) |->
                    IF c \in Range(df.columns) THEN df.rows[i][c] ELSE MissingCell]]]

\* None becomes the null of the table: fillna(np.nan) in pandas, and
\* polars reads None as null
FillNa(t) ==
    [columns |-> t.columns,
     rows |-> [i \in DOMAIN t.rows |->
                 [c \in DOMAIN t.rows[i] |->
                    IF t.rows[i][c].kind = "None" THEN Null ELSE t.rows[i][c]]]]

HasDuplicates(s) == \E i, j \in DOMAIN s : i # j /\ s[i] = s[j]

\* the file left open
ExitWithLeak == "open"

\* what closes the file when the with block is left
ExitWith == "closed"

\* info_fields, sample_fields, samples passed as None
ResolveDefault(arg, all) == IF arg.isNone THEN all ELSE arg.val

NoResult == [columns |-> <<>>, rows |-> <<>>]

(***************************************************************************)
(* The call.                                                               *)
(***************************************************************************)
NoArgs ==
    [query |-> "None", info_fields |-> NoneArg, sample_fields |-> NoneArg,
     samples |-> NoneArg, include_unspecified |-> FALSE]

Init ==
    /\ file \in Files
    /\ \/ /\ op \in TableOps
          /\ args \in [query : QueryArgs, info_fields : InfoFieldArgs,
                        sample_fields : SampleFieldArgs, samples : SampleArgs,
                        include_unspecified : BOOLEAN]
       \/ /\ op \in SchemaOps
          /\ args = NoArgs
    /\ info_fields = <<>>
    /\ sample_fields = <<>>
    /\ samples = <<>>
    /\ handle = "unopened"
    /\ pc = "call"
    /\ record_iter = <<>>
    /\ records = <<>>
    /\ result = NoResult

\* with pysam.VariantFile(path) as f:
Open ==
    /\ pc = "call"
    /\ handle' = "open"
    /\ pc' = "opened"
    /\ UNCHANGED <<op, file, args, info_fields, sample_fields, samples,
                   record_iter, records, result>>

\* pysam.VariantFile(path) raises: there is no file, or it is no VCF
OpenRaises ==
    /\ pc = "call"
    /\ pc' = "raised"
    /\ UNCHANGED <<op, file, args, info_fields, sample_fields, samples, handle,
                   record_iter, records, result>>

\* read_info_schema, read_sample_schema: the return leaves the with block
ReadSchema ==
    /\ pc = "opened"
    /\ op \in SchemaOps
    /\ result' = [columns |-> <<"name", "number", "type", "description">>,
                  rows |-> IF op = "read_info_schema"
                           THEN _read_info_schema(file)
                           ELSE _read_sample_schema(file)]
    /\ handle' = ExitWith
    /\ pc' = "returned"
    /\ UNCHANGED <<op, file, args, info_fields, sample_fields, samples,
                   record_iter, records>>

\* lines 181-193 and 50-55: the defaults, and the iterator over the records
StartRecords ==
    /\ pc = "opened"
    /\ op \in TableOps
    /\ info_fields' = ResolveDefault(args.info_fields, Names(_read_info_schema(file)))
    /\ sample_fields' =
           ResolveDefault(args.sample_fields, Names(_read_sample_schema(file)))
    /\ samples' = ResolveDefault(args.samples, file.header.samples)
    /\ record_iter' = Fetch(file, args.query)
    /\ records' = <<>>
    /\ pc' = "iterating"
    /\ UNCHANGED <<op, file, args, handle, result>>

\* f.fetch raises ValueError: the file has no index
FetchRaises ==
    /\ pc = "opened"
    /\ op \in TableOps
    /\ args.query # "None"
    /\ handle' = ExitWith
    /\ pc' = "raised"
    /\ UNCHANGED <<op, file, args, info_fields, sample_fields, samples,
                   record_iter, records, result>>

\* lines 56-88: one turn of the loop
NextRecord ==
    /\ pc = "iterating"
    /\ record_iter # <<>>
    /\ ~RecordRaisesTypeError(Head(record_iter))
    /\ records' = Append(records,
                         RecordDict(Head(record_iter), Range(info_fields),
                                    Range(sample_fields), samples,
                                    args.include_unspecified))
    /\ record_iter' = Tail(record_iter)
    /\ UNCHANGED <<op, file, args, info_fields, sample_fields, samples, handle,
                   pc, result>>

\* the for statement takes the record out of the iterator, line 63 raises in
\* the body and the exception leaves the with block
RecordRaises ==
    /\ pc = "iterating"
    /\ record_iter # <<>>
    /\ RecordRaisesTypeError(Head(record_iter))
    /\ record_iter' = Tail(record_iter)
    /\ handle' = ExitWith
    /\ pc' = "raised"
    /\ UNCHANGED <<op, file, args, info_fields, sample_fields, samples,
                   records, result>>

\* the iterator raises: pysam cannot decode the next line
IterRaises ==
    /\ pc = "iterating"
    /\ record_iter # <<>>
    /\ handle' = ExitWith
    /\ pc' = "raised"
    /\ UNCHANGED <<op, file, args, info_fields, sample_fields, samples,
                   record_iter, records, result>>

\* the loop ends, the records are returned and the with block is left
EndRecords ==
    /\ pc = "iterating"
    /\ record_iter = <<>>
    /\ handle' = ExitWith
    /\ pc' = "assemble"
    /\ UNCHANGED <<op, file, args, info_fields, sample_fields, samples,
                   record_iter, records, result>>

\* lines 195-209
AssemblePandas ==
    /\ pc = "assemble"
    /\ op = "read_vcf_as_pandas"
    /\ LET df == FromRecords(records)
           columns == RequestColumns(info_fields, sample_fields, samples)
       IN  \E rest \in ListOfSet(Unspecified(df, columns)) :
               result' = FillNa(Select(df, FinalColumns(columns, rest)))
    /\ pc' = "returned"
    /\ UNCHANGED <<op, file, args, info_fields, sample_fields, samples, handle,
                   record_iter, records>>

\* line 270 on a frame without rows: polars gives a literal the height of the
\* frame, and a frame that has no column yet has no height, so that the
\* literal may come as one row of its own
WithColumnsOnEmpty(columns) ==
    {<<>>, <<[c \in Range(columns) |-> MissingCell]>>}

\* lines 258-272; select raises DuplicateError when a name is given twice
AssemblePolars ==
    /\ pc = "assemble"
    /\ op = "read_vcf_as_polars"
    /\ LET df == FillNa(PlFromRecords(records))
           columns == RequestColumns(info_fields, sample_fields, samples)
       IN  \E rest \in ListOfSet(Unspecified(df, columns)) :
               IF HasDuplicates(FinalColumns(columns, rest))
               THEN /\ pc' = "raised"
                    /\ UNCHANGED result
               ELSE /\ pc' = "returned"
                    /\ IF records = <<>>
                       THEN \E rows \in WithColumnsOnEmpty(FinalColumns(columns, rest)) :
                               result' = [columns |-> FinalColumns(columns, rest),
                                          rows |-> rows]
                       ELSE result' = Select(df, FinalColumns(columns, rest))
    /\ UNCHANGED <<op, file, args, info_fields, sample_fields, samples, handle,
                   record_iter, records>>

Next ==
    \/ Open
    \/ OpenRaises
    \/ ReadSchema
    \/ StartRecords
    \/ FetchRaises
    \/ NextRecord
    \/ RecordRaises
    \/ IterRaises
    \/ EndRecords
    \/ AssemblePandas
    \/ AssemblePolars

Spec == Init /\ [][Next]_vars

(***************************************************************************)
(* The claims.                                                             *)
(***************************************************************************)
IsTable == pc = "returned" /\ op \in TableOps

Read == Fetch(file, args.query)

\* the record behind the i-th row dict
Source(i) == Read[i]

Columns == Range(result.columns)

Keys(items) == {items[j].key : j \in DOMAIN items}

InfoKeysRead == UNION {Keys(r.info) : r \in Range(Read)}

\* the value a row holds for a value of the record
Converted(v) == IF v.kind = "tuple" THEN ToList(v) ELSE v

\* C1, as stated: without include_unspecified an INFO field name that is not
\* in info_fields is never a column of the table.
C1_UnrequestedInfoNeverColumn ==
    IsTable /\ ~args.include_unspecified =>
        \A k \in InfoKeysRead : k \notin Range(info_fields) => k \notin Columns

\* C1, amended: without include_unspecified an INFO field name that is not in
\* info_fields is a column only if it spells a fixed column or a column of a
\* requested sample ("<sample>.phased", "<sample>.<requested field>").
C1_UnrequestedInfoOnlyByName ==
    IsTable /\ ~args.include_unspecified =>
        \A k \in InfoKeysRead :
            /\ k \notin Range(info_fields)
            /\ k \notin Range(Fixed)
            /\ k \notin Range(SampleColumns(samples, sample_fields))
            => k \notin Columns

C1_Witness ==
    /\ IsTable
    /\ ~args.include_unspecified
    /\ \E k \in InfoKeysRead :
          /\ k \notin Range(info_fields)
          /\ k \notin Range(Fixed)
          /\ k \notin Range(SampleColumns(samples, sample_fields))
          /\ k \notin Columns

\* C2: with include_unspecified every INFO key and every "<sample>.<field>"
\* key of every record read is a column of the table.
C2_EveryKeyIsColumn ==
    IsTable /\ args.include_unspecified =>
        \A r \in Range(Read) :
            /\ \A k \in Keys(r.info) : k \in Columns
            /\ \A g \in Range(r.samples) :
                  \A k \in Keys(g.fields) : (g.name \o "." \o k) \in Columns

FirstSeenRest ==
    LET columns == RequestColumns(info_fields, sample_fields, samples)
    IN  SelectSeq(DfColumns(records), LAMBDA c : c \notin Range(columns))

\* C3: the columns are the fixed fields, the requested INFO fields, the
\* columns of the requested samples, then the remaining columns in the order
\* in which they were first seen.
C3_ColumnOrder ==
    IsTable =>
        result.columns =
            RequestColumns(info_fields, sample_fields, samples) \o FirstSeenRest

\* C4: every row of the table has the columns of the table, and a cell whose
\* column the row's dict does not supply holds the null.
C4_MissingCellsNull ==
    IsTable =>
        \A i \in DOMAIN result.rows :
            /\ DOMAIN result.rows[i] = Columns
            /\ \A c \in Columns :
                  (i \notin DOMAIN records \/ ~Has(records[i], c)) =>
                      result.rows[i][c] = Null

C4_Witness ==
    /\ IsTable
    /\ Len(result.rows) = 2
    /\ \E c \in Columns : \A i \in DOMAIN records :
          ~Has(records[i], c) /\ result.rows[i][c] = Null
    /\ \E c \in Columns :
          /\ Has(records[1], c) /\ result.rows[1][c] = records[1].at[c]
          /\ ~Has(records[2], c) /\ result.rows[2][c] = Null

\* C5: a row holds "<s>.<k>" for a genotype field k of sample s exactly when
\* s is selected and k is selected; "<s>.GT" is the list of the alleles and
\* comes with "<s>.phased".
C5_SampleKeyIffSelected ==
    \A i \in DOMAIN records :
        \A g \in Range(Source(i).samples) :
            \A j \in DOMAIN g.fields :
                LET k == g.fields[j].key
                    col == g.name \o "." \o k
                IN  /\ Has(records[i], col) <=>
                          /\ (g.name \in Range(samples) \/ args.include_unspecified)
                          /\ (k \in Range(sample_fields) \/ args.include_unspecified)
                    /\ (k = "GT" /\ Has(records[i], col)) =>
                          /\ records[i].at[col] = ToList(g.fields[j].value)
                          /\ Has(records[i], g.name \o ".phased")

ScenarioRequest(fields) ==
    /\ op \in TableOps
    /\ args.info_fields = Some(<<"DP">>)
    /\ args.sample_fields = Some(fields)
    /\ args.samples = Some(<<"S1">>)
    /\ ~args.include_unspecified

RowWithGT(d) ==
    /\ DOMAIN d.at = Range(Fixed) \cup {"DP", "S1.phased", "S1.GT", "S1.DP"}
    /\ d.at["DP"] = PyInt("10")
    /\ d.at["S1.phased"] = PyBool("False")
    /\ d.at["S1.GT"] = PyList(<<"0", "1">>)
    /\ d.at["S1.DP"] = PyInt("5")

RowWithoutGT(d) ==
    /\ DOMAIN d.at = Range(Fixed) \cup {"DP", "S1.DP"}
    /\ d.at["DP"] = PyInt("10")
    /\ d.at["S1.DP"] = PyInt("5")

\* C6, as stated: with infoFields={DP}, sampleFields={DP}, samples={S1} the
\* row of the scenario's record holds the fixed columns, DP=10,
\* S1.phased=false, S1.GT=[0,1] and S1.DP=5.
C6_ScenarioRowHasGT ==
    ScenarioRequest(<<"DP">>) =>
        \A i \in DOMAIN records : Source(i) = RecScenario => RowWithGT(records[i])

\* C6, amended: with sampleFields={DP} the row holds the fixed columns, DP=10
\* and S1.DP=5 only; it is with sampleFields={GT, DP} that it also holds
\* S1.GT=[0,1] and S1.phased=false.
C6_ScenarioRow ==
    /\ ScenarioRequest(<<"DP">>) =>
          \A i \in DOMAIN records :
              Source(i) = RecScenario => RowWithoutGT(records[i])
    /\ ScenarioRequest(<<"GT", "DP">>) =>
          \A i \in DOMAIN records :
              Source(i) = RecScenario => RowWithGT(records[i])

C6_Witness ==
    /\ ScenarioRequest(<<"DP">>)
    /\ pc = "returned"
    /\ \E i \in DOMAIN records :
          Source(i) = RecScenario /\ RowWithoutGT(records[i])

\* C7: the row of a record holds the record's own value under each of the
\* seven fixed columns.
C7_FixedColumnsVerbatim ==
    \A i \in DOMAIN records :
        \A k \in Range(Fixed) :
            Has(records[i], k) /\ records[i].at[k] = MainFields(Source(i)).at[k]

Resolved == op \in TableOps /\ pc \in {"iterating", "assemble", "returned"}

\* C8: an argument passed as None stands for the fields and samples of the
\* header, in the order of the header; each gets a column and, without
\* include_unspecified, every value a record carries for them is in the
\* record's row.
C8_NoneMeansAll ==
    Resolved /\ ~args.include_unspecified =>
        /\ args.info_fields.isNone =>
              /\ info_fields = Names(file.header.info)
              /\ IsTable => Range(info_fields) \subseteq Columns
              /\ \A i \in DOMAIN records :
                    \A j \in DOMAIN Source(i).info :
                        LET it == Source(i).info[j]
                        IN  /\ Has(records[i], it.key)
                            /\ records[i].at[it.key] = Converted(it.value)
        /\ args.sample_fields.isNone =>
              /\ sample_fields = Names(file.header.formats)
              /\ IsTable =>
                    Range(SampleColumns(samples, sample_fields)) \subseteq Columns
              /\ \A i \in DOMAIN records :
                    \A g \in Range(Source(i).samples) :
                        g.name \in Range(samples) =>
                            \A j \in DOMAIN g.fields :
                                LET col == g.name \o "." \o g.fields[j].key
                                IN  /\ Has(records[i], col)
                                    /\ records[i].at[col] = Converted(g.fields[j].value)
        /\ args.samples.isNone =>
              /\ samples = file.header.samples
              /\ IsTable =>
                    Range(SampleColumns(samples, sample_fields)) \subseteq Columns
              /\ \A i \in DOMAIN records :
                    \A g \in Range(Source(i).samples) :
                        \A j \in DOMAIN g.fields :
                            g.fields[j].key \in Range(sample_fields) =>
                                LET col == g.name \o "." \o g.fields[j].key
                                IN  /\ Has(records[i], col)
                                    /\ records[i].at[col] = Converted(g.fields[j].value)

\* C9: the file is closed on every way out of the four functions, the
\* records are all read before it is closed, and none is read once it is.
C9_HandleScoped ==
    /\ [](/\ pc \in {"assemble", "returned", "raised"} => handle # "open"
          /\ pc \in {"assemble", "returned"} => handle = "closed"
          /\ (op \in TableOps /\ pc \in {"assemble", "returned"}) =>
                record_iter = <<>> /\ Len(records) = Len(Read))
    /\ [][(record_iter' # record_iter \/ records' # records) => handle = "open"]_vars

\* a record raised in the loop after another was read, with records unread
C9_Witness ==
    /\ pc = "raised"
    /\ handle = "closed"
    /\ records # <<>>
    /\ Len(records) + Len(record_iter) < Len(Read)

\* C10: no name comes twice in the columns of the table.
C10_UniqueColumns == IsTable => ~HasDuplicates(result.columns)

====
